---- MODULE Spec2Model ----
(***************************************************************************)
(* NaturalPromptXcode: the prompt parser (keyword extraction in front of a *)
(* two-tier parse cache) of src/src/nlp/parser.py and the code generator   *)
(* of src/src/codegen/generator.py.                                        *)
(*                                                                         *)
(* Text that the code inspects character by character (the prompt, the     *)
(* framework and language tags that are folded into the cache key) is a    *)
(* sequence of one-character strings.  Text the code only copies and       *)
(* compares as a whole (feature names, descriptions, tags) is a string.    *)
(***************************************************************************)
EXTENDS Integers, Sequences, FiniteSets, TLC

\* the state of the parser and its store, described with the cache below
VARIABLES config, cache_dir, cache, heap, disk, ret, op, steps, reads, first,
          project, dispatch, raised, sha, run, par

(***************************************************************************)
(* Bounds of the model.                                                    *)
(***************************************************************************)
\* a prompt of the extraction specification is made of at most this many fragments
MaxFrags == 2
\* operations (parse calls, assignments, parser constructions, foreign writes)
\* in one behaviour of the cache specifications
MaxSteps == 5

(***************************************************************************)
(* Text.                                                                   *)
(***************************************************************************)
Str_counter == <<"c", "o", "u", "n", "t", "e", "r">>
Str_weather == <<"w", "e", "a", "t", "h", "e", "r">>
Str_todo == <<"t", "o", "d", "o">>
Str_task == <<"t", "a", "s", "k">>
Str_photo == <<"p", "h", "o", "t", "o">>
Str_gallery == <<"g", "a", "l", "l", "e", "r", "y">>
Str_swiftui == <<"s", "w", "i", "f", "t", "u", "i">>
Str_uikit == <<"u", "i", "k", "i", "t">>
Str_swift == <<"s", "w", "i", "f", "t">>
Str_objective_c == <<"o", "b", "j", "e", "c", "t", "i", "v", "e", "-", "c">>

\* str.lower() on one character
LowerChar(c) ==
    CASE c = "C" -> "c"
      [] c = "O" -> "o"
      [] c = "U" -> "u"
      [] c = "N" -> "n"
      [] c = "T" -> "t"
      [] c = "E" -> "e"
      [] c = "R" -> "r"
      [] c = "W" -> "w"
      [] c = "S" -> "s"
      [] c = "I" -> "i"
      [] c = "A" -> "a"
      [] c = "B" -> "b"
      [] c = "D" -> "d"
      [] c = "F" -> "f"
      [] OTHER -> c

\* prompt.lower()
Lower(s) == [i \in 1..Len(s) |-> LowerChar(s[i])]

\* needle in hay (Python's substring test)
Contains(hay, needle) ==
    \E i \in 0..(Len(hay) - Len(needle)) :
        SubSeq(hay, i + 1, i + Len(needle)) = needle

(***************************************************************************)
(* The inputs: prompts, and the enumerated configuration values.           *)
(***************************************************************************)
Fragments ==
    { Str_counter, Str_weather, Str_todo, Str_task, Str_photo, Str_gallery,
      <<"C", "O", "U", "N">>, <<"T", "E", "R">>, <<"W", "e", "a", "t", "h", "e", "r">>,
      <<" ", "a", "p", "p">>, <<":">>, Str_uikit, Str_swift }

RECURSIVE PromptsOf(_)
PromptsOf(n) ==
    IF n = 0 THEN { <<>> }
    ELSE LET shorter == PromptsOf(n - 1)
         IN  shorter \cup { p \o f : p \in shorter, f \in Fragments }

AllPrompts == PromptsOf(MaxFrags)

Frameworks == { Str_swiftui, Str_uikit }
Languages == { Str_swift, Str_objective_c }

(***************************************************************************)
(* Requirement extraction.                                                 *)
(***************************************************************************)
AppFeature(name, description, ui_elements, functionality) ==
    [ name |-> name, description |-> description,
      ui_elements |-> ui_elements, functionality |-> functionality ]

AppRequirements(app_name, description, features, ui_framework, metadata) ==
    [ app_name |-> app_name, description |-> description, features |-> features,
      ui_framework |-> ui_framework, metadata |-> metadata ]

CounterFeature ==
    AppFeature("Counter", "Display and modify a counter value",
               <<"label", "button", "button">>,
               <<"increment", "decrement", "display">>)

WeatherFeature ==
    AppFeature("WeatherDisplay", "Show weather information",
               <<"label", "image", "text">>,
               <<"fetch_weather", "display_temperature", "display_conditions">>)

TaskFeature ==
    AppFeature("TaskList", "Manage a list of tasks",
               <<"list", "text_field", "button">>,
               <<"add_task", "remove_task", "toggle_completion">>)

MainFeature ==
    AppFeature("MainFeature", "Main application functionality",
               <<"view">>, <<"display">>)

\* faulty variant: the weather test placed before the counter test
ExtractAppName_WeatherFirst(prompt) ==
    LET prompt_lower == Lower(prompt)
    IN  IF Contains(prompt_lower, Str_weather) THEN "WeatherApp"
        ELSE IF Contains(prompt_lower, Str_counter) THEN "CounterApp"
        ELSE IF Contains(prompt_lower, Str_todo) \/ Contains(prompt_lower, Str_task)
             THEN "TodoApp"
        ELSE IF Contains(prompt_lower, Str_photo) \/ Contains(prompt_lower, Str_gallery)
             THEN "PhotoGallery"
        ELSE "GeneratedApp"

\* faulty variant: the last elif taken for the else branch
ExtractAppName_NoDefault(prompt) ==
    LET prompt_lower == Lower(prompt)
    IN  IF Contains(prompt_lower, Str_counter) THEN "CounterApp"
        ELSE IF Contains(prompt_lower, Str_weather) THEN "WeatherApp"
        ELSE IF Contains(prompt_lower, Str_todo) \/ Contains(prompt_lower, Str_task)
             THEN "TodoApp"
        ELSE "PhotoGallery"

\* the if / elif chain of _extract_app_name
ExtractAppName(prompt) ==
    LET prompt_lower == Lower(prompt)
    IN  IF Contains(prompt_lower, Str_counter) THEN "CounterApp"
        ELSE IF Contains(prompt_lower, Str_weather) THEN "WeatherApp"
        ELSE IF Contains(prompt_lower, Str_todo) \/ Contains(prompt_lower, Str_task)
             THEN "TodoApp"
        ELSE IF Contains(prompt_lower, Str_photo) \/ Contains(prompt_lower, Str_gallery)
             THEN "PhotoGallery"
        ELSE "GeneratedApp"

\* faulty variant: no generic fallback
ExtractFeatures_NoFallback(prompt) ==
    LET prompt_lower == Lower(prompt)
        f1 == IF Contains(prompt_lower, Str_counter) THEN <<CounterFeature>> ELSE <<>>
        f2 == IF Contains(prompt_lower, Str_weather)
              THEN Append(f1, WeatherFeature) ELSE f1
    IN  IF Contains(prompt_lower, Str_todo) \/ Contains(prompt_lower, Str_task)
        THEN Append(f2, TaskFeature) ELSE f2

\* faulty variant: the task list tested before the weather display, and "task" forgotten
ExtractFeatures_TaskEarly(prompt) ==
    LET prompt_lower == Lower(prompt)
        f1 == IF Contains(prompt_lower, Str_counter) THEN <<CounterFeature>> ELSE <<>>
        f2 == IF Contains(prompt_lower, Str_todo) THEN Append(f1, TaskFeature) ELSE f1
        f3 == IF Contains(prompt_lower, Str_weather)
              THEN Append(f2, WeatherFeature) ELSE f2
    IN  IF f3 = <<>> THEN <<MainFeature>> ELSE f3

\* faulty variant: the weather display tested before the counter
ExtractFeatures_WeatherEarly(prompt) ==
    LET prompt_lower == Lower(prompt)
        f1 == IF Contains(prompt_lower, Str_weather) THEN <<WeatherFeature>> ELSE <<>>
        f2 == IF Contains(prompt_lower, Str_counter)
              THEN Append(f1, CounterFeature) ELSE f1
        f3 == IF Contains(prompt_lower, Str_todo) \/ Contains(prompt_lower, Str_task)
              THEN Append(f2, TaskFeature) ELSE f2
    IN  IF f3 = <<>> THEN <<MainFeature>> ELSE f3

\* the three independent tests of _extract_features, then the generic fallback
ExtractFeatures(prompt) ==
    LET prompt_lower == Lower(prompt)
        f1 == IF Contains(prompt_lower, Str_counter) THEN <<CounterFeature>> ELSE <<>>
        f2 == IF Contains(prompt_lower, Str_weather)
              THEN Append(f1, WeatherFeature) ELSE f1
        f3 == IF Contains(prompt_lower, Str_todo) \/ Contains(prompt_lower, Str_task)
              THEN Append(f2, TaskFeature) ELSE f2
    IN  IF f3 = <<>> THEN <<MainFeature>> ELSE f3

\* faulty variant: the feature list is shared between calls and grows
Extract_SharedFeatures(prompt, ui_framework, language) ==
    AppRequirements(ExtractAppName(prompt), prompt,
                    (IF heap = <<>> THEN <<>> ELSE heap[Len(heap)].features)
                        \o ExtractFeatures(prompt),
                    ui_framework,
                    [ original_prompt |-> prompt, language |-> language ])

\* the record parse builds on a miss
Extract(prompt, ui_framework, language) ==
    AppRequirements(ExtractAppName(prompt), prompt, ExtractFeatures(prompt),
                    ui_framework,
                    [ original_prompt |-> prompt, language |-> language ])

(***************************************************************************)
(* The cache key.  The digest is collision free in the model: it keeps the *)
(* text it is computed over.                                               *)
(***************************************************************************)
\* faulty variant: the framework left out of the key
CacheInput_NoFramework(prompt, ui_framework, language) ==
    prompt \o <<":">> \o language

\* f"{prompt}:{ui_framework}:{language}"
CacheInput(prompt, ui_framework, language) ==
    prompt \o <<":">> \o ui_framework \o <<":">> \o language

Sha256Hex(text) == <<"sha256", text>>

GetCacheKey(prompt, ui_framework, language) ==
    Sha256Hex(CacheInput(prompt, ui_framework, language))

(***************************************************************************)
(* The persisted format.  A cache file holds text; what json.load makes of *)
(* it is not JSON at all (kind "garbage": empty, truncated, ...), a JSON   *)
(* value that is no object (kind "array") or an object (kind "object"),    *)
(* a mapping from some field names to values.  A file whose bytes are no   *)
(* text in the encoding of open() (kind "bytes") does not get as far as    *)
(* the JSON decoder.                                                       *)
(***************************************************************************)
FeatureFields == { "name", "description", "ui_elements", "functionality" }

TopLevelFields == { "app_name", "description", "features", "ui_framework", "metadata" }

Garbage == [ kind |-> "garbage", data |-> <<>> ]
NotText == [ kind |-> "bytes", data |-> <<>> ]
NonObject == [ kind |-> "array", data |-> <<>> ]
JsonObject(d) == [ kind |-> "object", data |-> d ]

\* faulty variant: the two tag lists of a feature change places
Serialize_TagsSwapped(result) ==
    JsonObject(
        [ app_name |-> result.app_name,
          description |-> result.description,
          features |->
              [ i \in 1..Len(result.features) |->
                  [ name |-> result.features[i].name,
                    description |-> result.features[i].description,
                    ui_elements |-> result.features[i].functionality,
                    functionality |-> result.features[i].ui_elements ] ],
          ui_framework |-> result.ui_framework,
          metadata |-> result.metadata ])

\* the dict _save_to_cache dumps
Serialize(result) ==
    JsonObject(
        [ app_name |-> result.app_name,
          description |-> result.description,
          features |->
              [ i \in 1..Len(result.features) |->
                  [ name |-> result.features[i].name,
                    description |-> result.features[i].description,
                    ui_elements |-> result.features[i].ui_elements,
                    functionality |-> result.features[i].functionality ] ],
          ui_framework |-> result.ui_framework,
          metadata |-> result.metadata ])

NoRecord == [ app_name |-> "" ]

\* json.load and the reconstruction in _get_from_cache: status "ok" with the
\* record, "miss" for the two exceptions that are caught (JSONDecodeError,
\* KeyError), "raise" for an exception that is not (TypeError,
\* UnicodeDecodeError)
Deserialize(content) ==
    IF content.kind = "garbage" THEN [ status |-> "miss", record |-> NoRecord ]
    ELSE IF content.kind = "bytes" THEN [ status |-> "raise", record |-> NoRecord ]
    ELSE IF content.kind = "array" THEN [ status |-> "raise", record |-> NoRecord ]
    ELSE LET data == content.data
         IN  IF "features" \notin DOMAIN data
             THEN [ status |-> "miss", record |-> NoRecord ]
             ELSE IF \E i \in 1..Len(data["features"]) :
                        DOMAIN data["features"][i] # FeatureFields
             THEN [ status |-> "raise", record |-> NoRecord ]
             ELSE IF { "app_name", "description", "ui_framework", "metadata" }
                        \subseteq DOMAIN data
             THEN [ status |-> "ok",
                    record |->
                        AppRequirements(
                            data["app_name"], data["description"],
                            [ i \in 1..Len(data["features"]) |->
                                AppFeature(data["features"][i]["name"],
                                           data["features"][i]["description"],
                                           data["features"][i]["ui_elements"],
                                           data["features"][i]["functionality"]) ],
                            data["ui_framework"], data["metadata"]) ]
             ELSE [ status |-> "miss", record |-> NoRecord ]

(***************************************************************************)
(* The code generator of src/src/codegen/generator.py.  File paths and     *)
(* file contents are strings; a content is the text of its template with   *)
(* the application name (and, for the content view, the view code) put in. *)
(***************************************************************************)
ProjectFile(path, content, file_type) ==
    [ path |-> path, content |-> content, file_type |-> file_type ]

ProjectStructure(name, files, metadata) ==
    [ name |-> name, files |-> files, metadata |-> metadata ]

\* what _generate_file returns for a tag it does not know
None == [ none |-> TRUE ]

\* Config.target_ios_version (its default; nothing in the pipeline assigns it)
TargetIosVersion == "15.0"

\* the text of _generate_swiftui_app, up to the application name
SwiftuiAppText_Head ==
    "import SwiftUI\n"
    \o "\n"
    \o "@main\n"
    \o "struct "

\* the text of _generate_swiftui_app, after the application name
SwiftuiAppText_Tail ==
    ": App {\n"
    \o "    var body: some Scene {\n"
    \o "        WindowGroup {\n"
    \o "            ContentView()\n"
    \o "        }\n"
    \o "    }\n"
    \o "}\n"

\* the text of _generate_swiftui_content_view, up to the view code
ContentViewText_Head ==
    "import SwiftUI\n"
    \o "\n"
    \o "struct ContentView: View {\n"

\* the text of _generate_swiftui_content_view, after the view code
ContentViewText_Tail ==
    "\n"
    \o "}\n"
    \o "\n"
    \o "struct ContentView_Previews: PreviewProvider {\n"
    \o "    static var previews: some View {\n"
    \o "        ContentView()\n"
    \o "    }\n"
    \o "}\n"

\* the view code for a record without features
HelloWorldView ==
    "    var body: some View {\n"
    \o "        Text(\"Hello, World!\")\n"
    \o "            .padding()\n"
    \o "    }"

\* the view code for a first feature named Counter
CounterView ==
    "    @State private var count = 0\n"
    \o "    \n"
    \o "    var body: some View {\n"
    \o "        VStack(spacing: 20) {\n"
    \o "            Text(\"Counter: \\(count)\")\n"
    \o "                .font(.largeTitle)\n"
    \o "                .fontWeight(.bold)\n"
    \o "            \n"
    \o "            HStack(spacing: 20) {\n"
    \o "                Button(action: {\n"
    \o "                    count -= 1\n"
    \o "                }) {\n"
    \o "                    Image(systemName: \"minus.circle.fill\")\n"
    \o "                        .font(.system(size: 50))\n"
    \o "                }\n"
    \o "                \n"
    \o "                Button(action: {\n"
    \o "                    count += 1\n"
    \o "                }) {\n"
    \o "                    Image(systemName: \"plus.circle.fill\")\n"
    \o "                        .font(.system(size: 50))\n"
    \o "                }\n"
    \o "            }\n"
    \o "        }\n"
    \o "        .padding()\n"
    \o "    }"

\* the view code for a first feature named WeatherDisplay
WeatherView ==
    "    @State private var temperature = \"72°F\"\n"
    \o "    @State private var condition = \"Sunny\"\n"
    \o "    \n"
    \o "    var body: some View {\n"
    \o "        VStack(spacing: 20) {\n"
    \o "            Image(systemName: \"sun.max.fill\")\n"
    \o "                .font(.system(size: 100))\n"
    \o "                .foregroundColor(.orange)\n"
    \o "            \n"
    \o "            Text(temperature)\n"
    \o "                .font(.system(size: 60))\n"
    \o "                .fontWeight(.bold)\n"
    \o "            \n"
    \o "            Text(condition)\n"
    \o "                .font(.title)\n"
    \o "                .foregroundColor(.secondary)\n"
    \o "        }\n"
    \o "        .padding()\n"
    \o "    }"

\* the view code for any other first feature, up to the application name
GreetingView_Head ==
    "    var body: some View {\n"
    \o "        VStack {\n"
    \o "            Text(\"Welcome to "

\* the view code for any other first feature, after the application name
GreetingView_Tail ==
    "\")\n"
    \o "                .font(.largeTitle)\n"
    \o "                .padding()\n"
    \o "        }\n"
    \o "    }"

\* the text of _generate_uikit_app_delegate
AppDelegateText ==
    "import UIKit\n"
    \o "\n"
    \o "@main\n"
    \o "class AppDelegate: UIResponder, UIApplicationDelegate {\n"
    \o "\n"
    \o "    func application(_ application: UIApplication, didFinishLaunchingWithOptions launchOptions: [UIApplication.LaunchOptionsKey: Any]?) -> Bool {\n"
    \o "        return true\n"
    \o "    }\n"
    \o "\n"
    \o "    func application(_ application: UIApplication, configurationForConnecting connectingSceneSession: UISceneSession, options: UIScene.ConnectionOptions) -> UISceneConfiguration {\n"
    \o "        return UISceneConfiguration(name: \"Default Configuration\", sessionRole: connectingSceneSession.role)\n"
    \o "    }\n"
    \o "}\n"

\* the text of _generate_uikit_view_controller, up to the application name
ViewControllerText_Head ==
    "import UIKit\n"
    \o "\n"
    \o "class ViewController: UIViewController {\n"
    \o "\n"
    \o "    override func viewDidLoad() {\n"
    \o "        super.viewDidLoad()\n"
    \o "        view.backgroundColor = .systemBackground\n"
    \o "        \n"
    \o "        let label = UILabel()\n"
    \o "        label.text = \"Hello from "

\* the text of _generate_uikit_view_controller, after the application name
ViewControllerText_Tail ==
    "!\"\n"
    \o "        label.textAlignment = .center\n"
    \o "        label.translatesAutoresizingMaskIntoConstraints = false\n"
    \o "        \n"
    \o "        view.addSubview(label)\n"
    \o "        \n"
    \o "        NSLayoutConstraint.activate([\n"
    \o "            label.centerXAnchor.constraint(equalTo: view.centerXAnchor),\n"
    \o "            label.centerYAnchor.constraint(equalTo: view.centerYAnchor)\n"
    \o "        ])\n"
    \o "    }\n"
    \o "}\n"

\* the text of _generate_info_plist, up to the application name
InfoPlistText_Head ==
    "<?xml version=\"1.0\" encoding=\"UTF-8\"?>\n"
    \o "<!DOCTYPE plist PUBLIC \"-//Apple//DTD PLIST 1.0//EN\" \"http://www.apple.com/DTDs/PropertyList-1.0.dtd\">\n"
    \o "<plist version=\"1.0\">\n"
    \o "<dict>\n"
    \o "    <key>CFBundleDevelopmentRegion</key>\n"
    \o "    <string>en</string>\n"
    \o "    <key>CFBundleDisplayName</key>\n"
    \o "    <string>"

\* the text of _generate_info_plist, after the application name
InfoPlistText_Tail ==
    "</string>\n"
    \o "    <key>CFBundleExecutable</key>\n"
    \o "    <string>$(EXECUTABLE_NAME)</string>\n"
    \o "    <key>CFBundleIdentifier</key>\n"
    \o "    <string>$(PRODUCT_BUNDLE_IDENTIFIER)</string>\n"
    \o "    <key>CFBundleInfoDictionaryVersion</key>\n"
    \o "    <string>6.0</string>\n"
    \o "    <key>CFBundleName</key>\n"
    \o "    <string>$(PRODUCT_NAME)</string>\n"
    \o "    <key>CFBundlePackageType</key>\n"
    \o "    <string>APPL</string>\n"
    \o "    <key>CFBundleShortVersionString</key>\n"
    \o "    <string>1.0</string>\n"
    \o "    <key>CFBundleVersion</key>\n"
    \o "    <string>1</string>\n"
    \o "    <key>LSRequiresIPhoneOS</key>\n"
    \o "    <true/>\n"
    \o "    <key>UILaunchStoryboardName</key>\n"
    \o "    <string>LaunchScreen</string>\n"
    \o "    <key>UIRequiredDeviceCapabilities</key>\n"
    \o "    <array>\n"
    \o "        <string>armv7</string>\n"
    \o "    </array>\n"
    \o "    <key>UISupportedInterfaceOrientations</key>\n"
    \o "    <array>\n"
    \o "        <string>UIInterfaceOrientationPortrait</string>\n"
    \o "    </array>\n"
    \o "</dict>\n"
    \o "</plist>\n"

GenerateSwiftuiApp(requirements) ==
    ProjectFile(requirements.app_name \o "App.swift",
                SwiftuiAppText_Head \o requirements.app_name \o SwiftuiAppText_Tail,
                "swift")

\* faulty variant: the view code follows the last feature
GenerateViewCode_LastFeature(requirements) ==
    IF requirements.features = <<>> THEN HelloWorldView
    ELSE LET feature == requirements.features[Len(requirements.features)]
         IN  IF feature.name = "Counter" THEN CounterView
             ELSE IF feature.name = "WeatherDisplay" THEN WeatherView
             ELSE GreetingView_Head \o requirements.app_name \o GreetingView_Tail

\* _generate_view_code; features[0] is the first element of the list
GenerateViewCode(requirements) ==
    IF requirements.features = <<>> THEN HelloWorldView
    ELSE LET feature == requirements.features[1]
         IN  IF feature.name = "Counter" THEN CounterView
             ELSE IF feature.name = "WeatherDisplay" THEN WeatherView
             ELSE GreetingView_Head \o requirements.app_name \o GreetingView_Tail

GenerateSwiftuiContentView(requirements) ==
    ProjectFile("ContentView.swift",
                ContentViewText_Head \o GenerateViewCode(requirements)
                    \o ContentViewText_Tail,
                "swift")

GenerateUikitAppDelegate(requirements) ==
    ProjectFile("AppDelegate.swift", AppDelegateText, "swift")

GenerateUikitViewController(requirements) ==
    ProjectFile("ViewController.swift",
                ViewControllerText_Head \o requirements.app_name
                    \o ViewControllerText_Tail,
                "swift")

GenerateInfoPlist(requirements) ==
    ProjectFile("Info.plist",
                InfoPlistText_Head \o requirements.app_name \o InfoPlistText_Tail,
                "plist")

\* the keys of the generators table
KnownTags ==
    { "swiftui_app", "swiftui_content_view", "uikit_app_delegate",
      "uikit_view_controller", "info_plist" }

\* faulty variant: a tag that is not in the table gets the manifest
GenerateFile_ManifestByDefault(file_type, requirements) ==
    IF file_type = "swiftui_app" THEN GenerateSwiftuiApp(requirements)
    ELSE IF file_type = "swiftui_content_view"
    THEN GenerateSwiftuiContentView(requirements)
    ELSE IF file_type = "uikit_app_delegate"
    THEN GenerateUikitAppDelegate(requirements)
    ELSE IF file_type = "uikit_view_controller"
    THEN GenerateUikitViewController(requirements)
    ELSE GenerateInfoPlist(requirements)

\* _generate_file: generators.get(file_type), None for a tag without entry
GenerateFile(file_type, requirements) ==
    IF file_type = "swiftui_app" THEN GenerateSwiftuiApp(requirements)
    ELSE IF file_type = "swiftui_content_view"
    THEN GenerateSwiftuiContentView(requirements)
    ELSE IF file_type = "uikit_app_delegate"
    THEN GenerateUikitAppDelegate(requirements)
    ELSE IF file_type = "uikit_view_controller"
    THEN GenerateUikitViewController(requirements)
    ELSE IF file_type = "info_plist" THEN GenerateInfoPlist(requirements)
    ELSE None

\* faulty variant: the manifest is left out of the second dialect
FilesToGenerate_NoManifest(requirements) ==
    IF requirements.ui_framework = Str_swiftui
    THEN << "swiftui_app", "swiftui_content_view", "info_plist" >>
    ELSE << "uikit_app_delegate", "uikit_view_controller" >>

\* faulty variant: the manifest is queued before the source files
FilesToGenerate_ManifestFirst(requirements) ==
    << "info_plist" >> \o
    (IF requirements.ui_framework = Str_swiftui
     THEN << "swiftui_app", "swiftui_content_view" >>
     ELSE << "uikit_app_delegate", "uikit_view_controller" >>)

\* faulty variant: the framework is compared without regard to letter case
FilesToGenerate_CaseFolded(requirements) ==
    (IF Lower(requirements.ui_framework) = Str_swiftui
     THEN << "swiftui_app", "swiftui_content_view" >>
     ELSE << "uikit_app_delegate", "uikit_view_controller" >>)
    \o << "info_plist" >>

\* files_to_generate of generate
FilesToGenerate(requirements) ==
    (IF requirements.ui_framework = Str_swiftui
     THEN << "swiftui_app", "swiftui_content_view" >>
     ELSE << "uikit_app_delegate", "uikit_view_controller" >>)
    \o << "info_plist" >>

\* the loop of generate: a file is appended if dispatch returned one
RECURSIVE GenerateFiles(_, _, _)
GenerateFiles(files, files_to_generate, requirements) ==
    IF files_to_generate = <<>> THEN files
    ELSE LET file == GenerateFile(Head(files_to_generate), requirements)
         IN  GenerateFiles(IF file # None THEN Append(files, file) ELSE files,
                           Tail(files_to_generate), requirements)

\* CodeGenerator.generate, of a generator that holds the configuration object
Generate(requirements) ==
    ProjectStructure(requirements.app_name,
                     GenerateFiles(<<>>, FilesToGenerate(requirements), requirements),
                     [ framework |-> requirements.ui_framework,
                       language |-> config.language,
                       ios_version |-> TargetIosVersion ])

NoProject == [ name |-> "", files |-> <<>>, metadata |-> <<>> ]

NoDispatch == [ file_type |-> "", file |-> None ]

(***************************************************************************)
(* The state.                                                              *)
(*   config     the Config object the parser holds a reference to          *)
(*   cache_dir  whether the parser has a persisted tier (_cache_dir)       *)
(*   cache      the in-memory tier (_cache): key -> object                 *)
(*   heap       the AppRequirements objects created so far; an object is   *)
(*              its index, so two names of one object see one value        *)
(*   disk       the persisted tier: key -> content of <key>.json           *)
(*   ret        how the last parse call ended (and how its persisted write *)
(*              ended, when it made one)                                   *)
(*   op         the operation that led to this state                       *)
(*   project    what the last generate call returned                       *)
(*   dispatch   the tag and the result of the last _generate_file call     *)
(*   raised     what the last _validate_config call raised                 *)
(* and, to state the properties: the number of operations so far, the      *)
(* reads of each persisted entry by the current parser and the object the  *)
(* current parser first returned for each key.                             *)
(***************************************************************************)
\* the variables of the parser and its store, and those of the generator
cachevars == << cache_dir, cache, heap, disk, ret, reads, first >>

genvars == << project, dispatch >>

\* the variables that the parser and the generator never assign
aux == << raised, sha, run, par >>

vars == << config, cachevars, op, steps, genvars, aux >>

\* no call of the other components made yet
AuxInit ==
    /\ raised = "none"
    /\ sha = [ file |-> "", checksum_file |-> [ exists |-> FALSE, text |-> <<>> ],
               hashed |-> {}, result |-> "none" ]
    /\ run = [ pc |-> "idle", dry_run |-> FALSE, trace |-> <<>>, outcome |-> "none",
               code |-> <<>>, written |-> <<>>, app |-> "" ]
    /\ par = [ prompt |-> <<>>, file |-> [ exists |-> FALSE, pieces |-> <<>> ],
               proc |-> [ p \in 1..2 |->
                            [ pc |-> "idle", buf |-> <<>>, pos |-> 0, written |-> 0, cache |-> <<>>,
                              seen |-> "none", tier |-> "none", ret |-> NoRecord ] ] ]

\* the prompts of the cache specifications
CachePrompts == { Str_counter \o <<" ", "a", "p", "p">>, <<":">> \o Str_uikit }

Empty == [ k \in {} |-> 0 ]

NoReturn ==
    [ kind |-> "none", obj |-> 0, tier |-> "none", key |-> <<>>, again |-> FALSE,
      prompt |-> <<>>, ui_framework |-> <<>>, language |-> <<>>, write |-> "none" ]

\* faulty variant: the persisted tier is consulted whether or not the parser
\* was constructed with one
GetFromCache_AlwaysPersisted(key) ==
    IF key \in DOMAIN cache
    THEN [ tier |-> "memory", status |-> "ok", obj |-> cache[key],
           record |-> heap[cache[key]] ]
    ELSE IF key \in DOMAIN disk
    THEN [ tier |-> "disk", status |-> Deserialize(disk[key]).status, obj |-> 0,
           record |-> Deserialize(disk[key]).record ]
    ELSE [ tier |-> "none", status |-> "miss", obj |-> 0, record |-> NoRecord ]

\* _get_from_cache: the in-memory tier first, the persisted tier only if the
\* parser has one and the file exists
GetFromCache(key) ==
    IF key \in DOMAIN cache
    THEN [ tier |-> "memory", status |-> "ok", obj |-> cache[key],
           record |-> heap[cache[key]] ]
    ELSE IF cache_dir /\ key \in DOMAIN disk
    THEN [ tier |-> "disk", status |-> Deserialize(disk[key]).status, obj |-> 0,
           record |-> Deserialize(disk[key]).record ]
    ELSE [ tier |-> "none", status |-> "miss", obj |-> 0, record |-> NoRecord ]

\* faulty variant: the in-memory tier keeps the latest entry only
CachePut_SingleEntry(key, obj) == (key :> obj)

\* self._cache[cache_key] = result
CachePut(key, obj) == (key :> obj) @@ cache

\* the persisted write of _save_to_cache: it is skipped without a cache
\* directory; open(..., "w") may fail and leave the store as it is, the dump
\* may fail after the file was truncated; every exception is swallowed
WriteOutcomes == { "written", "not_opened", "truncated" }

\* faulty variant: a file that exists is left as it is
DiskAfterSave_KeepExisting(key, result, outcome) ==
    IF ~cache_dir \/ outcome = "not_opened" \/ key \in DOMAIN disk THEN disk
    ELSE IF outcome = "truncated" THEN (key :> Garbage) @@ disk
    ELSE (key :> Serialize(result)) @@ disk

DiskAfterSave(key, result, outcome) ==
    IF ~cache_dir \/ outcome = "not_opened" THEN disk
    ELSE IF outcome = "truncated" THEN (key :> Garbage) @@ disk
    ELSE (key :> Serialize(result)) @@ disk

\* faulty variant: the in-memory tier is written after the persisted write,
\* inside the try block
SaveToCache_DiskFirst(key, obj, result, outcome) ==
    [ cache |-> IF cache_dir /\ outcome # "written" THEN cache ELSE CachePut(key, obj),
      disk |-> DiskAfterSave(key, result, outcome) ]

\* _save_to_cache: the in-memory tier first and always, then the persisted tier
SaveToCache(key, obj, result, outcome) ==
    [ cache |-> CachePut(key, obj),
      disk |-> DiskAfterSave(key, result, outcome) ]

Bump(f, key) == (key :> (IF key \in DOMAIN f THEN f[key] + 1 ELSE 1)) @@ f

Returned(obj, tier, key, prompt) ==
    [ kind |-> "return", obj |-> obj, tier |-> tier, key |-> key,
      again |-> key \in DOMAIN first, prompt |-> prompt,
      ui_framework |-> config.ui_framework, language |-> config.language,
      write |-> "none" ]

\* PromptParser.parse(prompt)
ParseStep(prompt, outcome) ==
    LET key == GetCacheKey(prompt, config.ui_framework, config.language)
        found == GetFromCache(key)
        new == Len(heap) + 1
        result == Extract(prompt, config.ui_framework, config.language)
    IN  /\ steps' = steps + 1
        /\ op' = "parse"
        /\ reads' = IF found.tier = "disk" THEN Bump(reads, key) ELSE reads
        /\ IF found.status = "ok" /\ found.tier = "memory"
           THEN /\ outcome = "written"
                /\ ret' = Returned(found.obj, "memory", key, prompt)
                /\ first' = IF key \in DOMAIN first THEN first
                            ELSE (key :> found.obj) @@ first
                /\ UNCHANGED << heap, cache, disk >>
           ELSE IF found.status = "ok"
           THEN /\ outcome = "written"
                /\ heap' = Append(heap, found.record)
                /\ cache' = CachePut(key, new)
                /\ ret' = Returned(new, "disk", key, prompt)
                /\ first' = IF key \in DOMAIN first THEN first
                            ELSE (key :> new) @@ first
                /\ UNCHANGED disk
           ELSE IF found.status = "raise"
           THEN /\ outcome = "written"
                /\ ret' = [ Returned(0, "disk", key, prompt) EXCEPT !.kind = "raise" ]
                /\ UNCHANGED << heap, cache, disk, first >>
           ELSE /\ (~cache_dir => outcome = "written")
                /\ heap' = Append(heap, result)
                /\ cache' = SaveToCache(key, new, result, outcome).cache
                /\ disk' = SaveToCache(key, new, result, outcome).disk
                /\ ret' = [ Returned(new, "extract", key, prompt) EXCEPT
                               !.write = IF cache_dir THEN outcome ELSE "none" ]
                /\ first' = IF key \in DOMAIN first THEN first
                            ELSE (key :> new) @@ first
        /\ UNCHANGED << config, cache_dir, project, dispatch >>

Parse ==
    /\ steps < MaxSteps
    /\ \E prompt \in CachePrompts, outcome \in WriteOutcomes :
           ParseStep(prompt, outcome)
    /\ UNCHANGED aux

\* config.ui_framework = ...  or  config.language = ...  (one assignment by the
\* caller, to another value of the enumerated set)
SetConfig ==
    /\ steps < MaxSteps
    /\ steps' = steps + 1
    /\ op' = "set_config"
    /\ \E fw \in Frameworks, lang \in Languages :
           /\ (fw = config.ui_framework) # (lang = config.language)
           /\ config' = [ config EXCEPT !.ui_framework = fw, !.language = lang ]
    /\ UNCHANGED << cache_dir, cache, heap, disk, ret, reads, first, project, dispatch >>
    /\ UNCHANGED aux

\* config.enable_caching = ...; PromptParser(config): a new parser over the
\* same cache directory, with an empty in-memory tier
NewParser ==
    /\ steps < MaxSteps
    /\ steps' = steps + 1
    /\ op' = "new_parser"
    /\ \E caching \in BOOLEAN :
           /\ config' = [ config EXCEPT !.enable_caching = caching ]
           /\ cache_dir' = caching
    /\ cache' = Empty
    /\ reads' = Empty
    /\ first' = Empty
    /\ ret' = NoReturn
    /\ UNCHANGED << heap, disk, project, dispatch >>
    /\ UNCHANGED aux

\* requirements.ui_framework = ...  on the record the last parse call returned
Mutate ==
    /\ steps < MaxSteps
    /\ steps' = steps + 1
    /\ op' = "mutate"
    /\ ret.kind = "return"
    /\ \E fw \in Frameworks :
           /\ heap[ret.obj].ui_framework # fw
           /\ heap' = [ heap EXCEPT ![ret.obj].ui_framework = fw ]
    /\ UNCHANGED << config, cache_dir, cache, disk, ret, reads, first, project,
                    dispatch >>
    /\ UNCHANGED aux

\* what something other than this program may leave in a cache file
ForeignContents(prompt) ==
    LET good == Serialize(Extract(prompt, config.ui_framework, config.language)).data
    IN  { Garbage,
          NonObject,
          JsonObject([ good EXCEPT !.features = <<>> ]),
          JsonObject([ f \in DOMAIN good \ { "app_name" } |-> good[f] ]),
          JsonObject([ good EXCEPT !.features =
                         << [ name |-> "Counter", description |-> "" ] >> ]),
          JsonObject([ good EXCEPT !.app_name = "Other" ]) }

Tamper ==
    /\ steps < MaxSteps
    /\ steps' = steps + 1
    /\ op' = "tamper"
    /\ \E prompt \in CachePrompts :
         \E content \in ForeignContents(prompt) :
           disk' = (GetCacheKey(prompt, config.ui_framework, config.language)
                       :> content) @@ disk
    /\ UNCHANGED << config, cache_dir, cache, heap, ret, reads, first, project,
                    dispatch >>
    /\ UNCHANGED aux

\* Config() with its defaults, and PromptParser(config) over an empty store
Init ==
    /\ config = [ ui_framework |-> Str_swiftui, language |-> Str_swift,
                  enable_caching |-> TRUE ]
    /\ cache_dir = config.enable_caching
    /\ cache = Empty
    /\ heap = <<>>
    /\ disk = Empty
    /\ ret = NoReturn
    /\ op = "init"
    /\ steps = 0
    /\ reads = Empty
    /\ first = Empty
    /\ project = NoProject
    /\ dispatch = NoDispatch
    /\ AuxInit

\* the parser in its environment: callers that reassign the configuration and
\* overwrite returned records, and a store that others write to
Next == Parse \/ SetConfig \/ NewParser \/ Mutate \/ Tamper

Spec == Init /\ [][Next]_vars

\* the program alone over its store: no foreign write, no overwrite of a record
NextClosed == Parse \/ SetConfig \/ NewParser

SpecClosed == Init /\ [][NextClosed]_vars

\* the program and the pipeline that overwrites ui_framework on returned records
NextPipeline == Parse \/ SetConfig \/ NewParser \/ Mutate

SpecPipeline == Init /\ [][NextPipeline]_vars

(***************************************************************************)
(* The program over a store that holds one entry when it starts: the file  *)
(* of one key, written by this program or left there by anything else.     *)
(***************************************************************************)
StoreContents(prompt) ==
    LET good == Serialize(Extract(prompt, config.ui_framework, config.language)).data
        short == << [ name |-> "Counter", description |-> "" ] >>
        long == << [ name |-> "Counter", description |-> "", ui_elements |-> <<>>,
                     functionality |-> <<>>, icon |-> "" ] >>
    IN  { JsonObject(good), Garbage, NotText, NonObject }
        \cup { JsonObject([ f \in DOMAIN good \ { lost } |-> good[f] ]) :
                   lost \in TopLevelFields }
        \cup { JsonObject([ good EXCEPT !.features = short ]),
               JsonObject([ good EXCEPT !.features = long ]),
               JsonObject([ f \in DOMAIN good \ { "app_name" } |->
                              IF f = "features" THEN short ELSE good[f] ]) }

InitStore ==
    /\ config = [ ui_framework |-> Str_swiftui, language |-> Str_swift,
                  enable_caching |-> TRUE ]
    /\ cache_dir = config.enable_caching
    /\ cache = Empty
    /\ heap = <<>>
    /\ disk \in { Empty } \cup UNION {
                 { GetCacheKey(prompt, config.ui_framework, config.language) :> content :
                     content \in StoreContents(prompt) } : prompt \in CachePrompts }
    /\ ret = NoReturn
    /\ op = "init"
    /\ steps = 0
    /\ reads = Empty
    /\ first = Empty
    /\ project = NoProject
    /\ dispatch = NoDispatch
    /\ AuxInit

NextStore == Parse \/ NewParser

SpecStore == InitStore /\ [][NextStore]_vars

(***************************************************************************)
(* Extraction as a function of its inputs: one parse call of a new parser  *)
(* over an empty store, for every prompt and every configuration.          *)
(***************************************************************************)
InitExtract ==
    /\ config \in [ ui_framework : Frameworks, language : Languages,
                    enable_caching : BOOLEAN ]
    /\ cache_dir = config.enable_caching
    /\ cache = Empty
    /\ heap = <<>>
    /\ disk = Empty
    /\ ret = NoReturn
    /\ op = "init"
    /\ steps = 0
    /\ reads = Empty
    /\ first = Empty
    /\ project = NoProject
    /\ dispatch = NoDispatch
    /\ AuxInit

ParseOnce ==
    /\ steps = 0
    /\ \E prompt \in AllPrompts, outcome \in WriteOutcomes :
           ParseStep(prompt, outcome)
    /\ UNCHANGED aux

SpecExtract == InitExtract /\ [][ParseOnce]_vars

(***************************************************************************)
(* The pipeline: a parser over a store that is empty or holds a foreign    *)
(* entry for one prompt, one parse call, possibly one overwrite of the     *)
(* returned record, and then one call of the generator on that record.     *)
(***************************************************************************)
\* tags handed to _generate_file: the five of the table and two others
Tags == KnownTags \cup { "storyboard", "" }

InitGenerate ==
    /\ config \in [ ui_framework : Frameworks, language : Languages,
                    enable_caching : { TRUE } ]
    /\ cache_dir = config.enable_caching
    /\ cache = Empty
    /\ heap = <<>>
    /\ disk \in { Empty } \cup
                 { GetCacheKey(Str_counter, config.ui_framework, config.language)
                       :> content : content \in ForeignContents(Str_counter) }
    /\ ret = NoReturn
    /\ op = "init"
    /\ steps = 0
    /\ reads = Empty
    /\ first = Empty
    /\ project = NoProject
    /\ dispatch = NoDispatch
    /\ AuxInit

\* requirements = parser.parse(prompt)
ParseForGenerate ==
    /\ steps = 0
    /\ \E prompt \in AllPrompts : ParseStep(prompt, "written")
    /\ UNCHANGED aux

\* requirements.ui_framework = ...  between parse and generate
MutateForGenerate == op = "parse" /\ Mutate

\* project = generator.generate(requirements)
CallGenerate ==
    /\ steps < MaxSteps
    /\ ret.kind = "return"
    /\ op \in { "parse", "mutate" }
    /\ steps' = steps + 1
    /\ op' = "generate"
    /\ project' = Generate(heap[ret.obj])
    /\ UNCHANGED << config, cache_dir, cache, heap, disk, ret, reads, first, dispatch >>
    /\ UNCHANGED aux

\* generator._generate_file(file_type, requirements)
CallGenerateFile ==
    /\ steps < MaxSteps
    /\ ret.kind = "return"
    /\ op \in { "parse", "mutate" }
    /\ steps' = steps + 1
    /\ op' = "generate_file"
    /\ \E file_type \in Tags :
           dispatch' = [ file_type |-> file_type,
                         file |-> GenerateFile(file_type, heap[ret.obj]) ]
    /\ UNCHANGED << config, cache_dir, cache, heap, disk, ret, reads, first, project >>
    /\ UNCHANGED aux

NextGenerate ==
    ParseForGenerate \/ MutateForGenerate \/ CallGenerate \/ CallGenerateFile

SpecGenerate == InitGenerate /\ [][NextGenerate]_vars

(***************************************************************************)
(* The configuration object of src/src/config.py and its validation.  A    *)
(* temperature is a number of tenths (0.7 is 7), so that the bounds of the *)
(* check are integers.  Config() leaves the defaults, which are valid;     *)
(* callers assign fields afterwards and may call _validate_config again.   *)
(***************************************************************************)
\* 0.0 <= self.temperature <= 1.0, in tenths
TemperatureMin == 0
TemperatureMax == 10

\* values a caller may assign: the valid ones, and others
FrameworkValues ==
    Frameworks \cup { <<"S", "w", "i", "f", "t", "U", "I">>,
                      <<"f", "l", "u", "t", "t", "e", "r">> }

LanguageValues == Languages \cup { <<"k", "o", "t", "l", "i", "n">> }

TemperatureValues == { 0 - 1, 0, 7, 10, 11 }

MaxTokensValues == { 0 - 1, 0, 1, 2000 }

\* faulty variant: the language is checked before the framework
ValidateConfig_LanguageFirst(c) ==
    IF c.language \notin Languages THEN "language"
    ELSE IF c.ui_framework \notin Frameworks THEN "ui_framework"
    ELSE IF ~(TemperatureMin <= c.temperature /\ c.temperature <= TemperatureMax)
    THEN "temperature"
    ELSE IF c.max_tokens <= 0 THEN "max_tokens"
    ELSE "none"

\* _validate_config: the field named by the ValueError it raises, "none" if it
\* returns
ValidateConfig(c) ==
    IF c.ui_framework \notin Frameworks THEN "ui_framework"
    ELSE IF c.language \notin Languages THEN "language"
    ELSE IF ~(TemperatureMin <= c.temperature /\ c.temperature <= TemperatureMax)
    THEN "temperature"
    ELSE IF c.max_tokens <= 0 THEN "max_tokens"
    ELSE "none"

\* Config(): the defaults of __init__
InitValidate ==
    /\ config = [ ui_framework |-> Str_swiftui, language |-> Str_swift,
                  enable_caching |-> TRUE, temperature |-> 7, max_tokens |-> 2000 ]
    /\ cache_dir = FALSE
    /\ cache = Empty
    /\ heap = <<>>
    /\ disk = Empty
    /\ ret = NoReturn
    /\ op = "init"
    /\ steps = 0
    /\ reads = Empty
    /\ first = Empty
    /\ project = NoProject
    /\ dispatch = NoDispatch
    /\ AuxInit

\* config.<field> = value, for one of the four validated fields
Assign ==
    /\ steps < MaxSteps
    /\ steps' = steps + 1
    /\ op' = "assign"
    /\ \/ \E v \in FrameworkValues : config' = [ config EXCEPT !.ui_framework = v ]
       \/ \E v \in LanguageValues : config' = [ config EXCEPT !.language = v ]
       \/ \E v \in TemperatureValues : config' = [ config EXCEPT !.temperature = v ]
       \/ \E v \in MaxTokensValues : config' = [ config EXCEPT !.max_tokens = v ]
    /\ UNCHANGED << cachevars, genvars, aux >>

\* config._validate_config()
Validate ==
    /\ steps < MaxSteps
    /\ steps' = steps + 1
    /\ op' = "validate"
    /\ raised' = ValidateConfig(config)
    /\ UNCHANGED << config, cachevars, genvars, sha, run, par >>

NextValidate == Assign \/ Validate

SpecValidate == InitValidate /\ [][NextValidate]_vars

(***************************************************************************)
(* The pipeline over a configuration whose framework and language were     *)
(* assigned after Config() returned: nothing validates them again before   *)
(* the parser and the generator are constructed and called.                *)
(***************************************************************************)
\* config.ui_framework = ...  or  config.language = ...  before the parser is
\* constructed, with any value
AssignDialect ==
    /\ steps < MaxSteps
    /\ op \in { "init", "assign" }
    /\ steps' = steps + 1
    /\ op' = "assign"
    /\ \/ \E v \in FrameworkValues : config' = [ config EXCEPT !.ui_framework = v ]
       \/ \E v \in LanguageValues : config' = [ config EXCEPT !.language = v ]
    /\ UNCHANGED << cachevars, genvars, aux >>

\* requirements = PromptParser(config).parse(prompt)
ParseUnvalidated ==
    /\ steps < MaxSteps
    /\ op \in { "init", "assign" }
    /\ \E prompt \in CachePrompts \cup { Str_counter } : ParseStep(prompt, "written")
    /\ UNCHANGED aux

NextUnvalidated == AssignDialect \/ ParseUnvalidated \/ CallGenerate

SpecUnvalidated == InitGenerate /\ [][NextUnvalidated]_vars

(***************************************************************************)
(* Generators of several configurations on one record: one parse call,     *)
(* then generate calls on the returned record, with assignments to the     *)
(* configuration in between (a generator reads the configuration it holds  *)
(* at the time of the call).                                               *)
(***************************************************************************)
ParseForRegenerate ==
    /\ steps = 0
    /\ \E prompt \in CachePrompts : ParseStep(prompt, "written")
    /\ UNCHANGED aux

\* config.ui_framework = ...  or  config.language = ...  after the parse call
Reconfigure == ret.kind = "return" /\ SetConfig

\* generator.generate(requirements), any number of times
Regenerate ==
    /\ steps < MaxSteps
    /\ ret.kind = "return"
    /\ steps' = steps + 1
    /\ op' = "generate"
    /\ project' = Generate(heap[ret.obj])
    /\ UNCHANGED << config, cache_dir, cache, heap, disk, ret, reads, first, dispatch >>
    /\ UNCHANGED aux

NextRegenerate == ParseForRegenerate \/ Reconfigure \/ Regenerate

SpecRegenerate == InitGenerate /\ [][NextRegenerate]_vars

(***************************************************************************)
(* The checksum utilities: a file, its .sha256 companion, and the calls    *)
(* write_sha256_file and verify_sha256 on them.                            *)
(***************************************************************************)
\* the contents the file takes
FileContents == { "", "Test content", "Modified content" }

\* the name of the file, written after the digest
FileName == << "f", ".", "t", "x", "t" >>

\* hashlib.sha256(content).hexdigest(): the leading digits of the digests of
\* the three contents, in lower case as hexdigest writes them
ComputeSha256(content) ==
    CASE content = "" -> << "e", "3", "b", "0" >>
      [] content = "Test content" -> << "9", "d", "9", "5" >>
      [] content = "Modified content" -> << "f", "1", "f", "6" >>

IsSpace(c) == c \in { " ", "\n" }

\* content.strip()
RECURSIVE StripLeft(_)
StripLeft(text) ==
    IF text # <<>> /\ IsSpace(Head(text)) THEN StripLeft(Tail(text)) ELSE text

RECURSIVE StripRight(_)
StripRight(text) ==
    IF text # <<>> /\ IsSpace(text[Len(text)])
    THEN StripRight(SubSeq(text, 1, Len(text) - 1))
    ELSE text

\* the characters of the text before its first white space
RECURSIVE UpToSpace(_)
UpToSpace(text) ==
    IF text = <<>> \/ IsSpace(Head(text)) THEN <<>>
    ELSE << Head(text) >> \o UpToSpace(Tail(text))

UpperChar(c) ==
    CASE c = "a" -> "A"
      [] c = "b" -> "B"
      [] c = "c" -> "C"
      [] c = "d" -> "D"
      [] c = "e" -> "E"
      [] c = "f" -> "F"
      [] c = "t" -> "T"
      [] c = "x" -> "X"
      [] OTHER -> c

Upper(text) == [ i \in 1..Len(text) |-> UpperChar(text[i]) ]

\* faulty variant: the hashes are compared as they are written
VerifySha256_CaseSensitive(content, checksum_file) ==
    IF ~checksum_file.exists THEN "error"
    ELSE LET stripped == StripRight(StripLeft(checksum_file.text))
         IN  IF stripped = <<>> THEN "error"
             ELSE ComputeSha256(content) = UpToSpace(stripped)

\* verify_sha256(file_path, checksum_file=...): "error" for SHA256Error
\* (no checksum file, or no token in it), else the result of the comparison
VerifySha256(content, checksum_file) ==
    IF ~checksum_file.exists THEN "error"
    ELSE LET stripped == StripRight(StripLeft(checksum_file.text))
         IN  IF stripped = <<>> THEN "error"
             ELSE Lower(ComputeSha256(content)) = Lower(UpToSpace(stripped))

\* the text that write_sha256_file writes: "hash  filename\n"
ChecksumLine(content) ==
    ComputeSha256(content) \o << " ", " " >> \o FileName \o << "\n" >>

\* write_sha256_file(file_path)
WriteSha256File ==
    /\ steps < MaxSteps
    /\ steps' = steps + 1
    /\ op' = "write_sha256"
    /\ sha' = [ sha EXCEPT !.checksum_file = [ exists |-> TRUE, text |-> ChecksumLine(sha.file) ],
                           !.hashed = { sha.file } ]
    /\ UNCHANGED << config, cachevars, genvars, raised, run, par >>

\* verify_sha256(file_path, checksum_file=file_path + ".sha256")
VerifySha256File ==
    /\ steps < MaxSteps
    /\ steps' = steps + 1
    /\ op' = "verify_sha256"
    /\ sha' = [ sha EXCEPT !.result = VerifySha256(sha.file, sha.checksum_file) ]
    /\ UNCHANGED << config, cachevars, genvars, raised, run, par >>

\* the file is rewritten with some content
ModifyFile ==
    /\ steps < MaxSteps
    /\ steps' = steps + 1
    /\ op' = "modify"
    /\ \E content \in FileContents : sha' = [ sha EXCEPT !.file = content ]
    /\ UNCHANGED << config, cachevars, genvars, raised, run, par >>

\* the checksum file is rewritten in upper case, as other tools print it
UpperCaseChecksum ==
    /\ steps < MaxSteps
    /\ sha.checksum_file.exists
    /\ steps' = steps + 1
    /\ op' = "uppercase"
    /\ sha' = [ sha EXCEPT !.checksum_file.text = Upper(sha.checksum_file.text) ]
    /\ UNCHANGED << config, cachevars, genvars, raised, run, par >>

NextSha256 == WriteSha256File \/ VerifySha256File \/ ModifyFile \/ UpperCaseChecksum

SpecSha256 == InitValidate /\ [][NextSha256]_vars

(***************************************************************************)
(* The pipeline driver: main() of the generate command.  run.trace lists   *)
(* the steps that were started, run.outcome is the outcome of the last     *)
(* one, run.code is the value returned by main (empty until it returns).   *)
(***************************************************************************)
StepOutcomes == { "ok", "exception", "interrupt" }

\* faulty variant: the build step follows create_project in dry-run mode too
StepAfter_BuildAlways(step, dry_run) ==
    CASE step = "parse" -> "generate"
      [] step = "generate" -> "create_project"
      [] step = "create_project" -> "build"
      [] step = "build" -> "done"

\* the statement that follows a step of the try block that succeeded
StepAfter(step, dry_run) ==
    CASE step = "parse" -> "generate"
      [] step = "generate" -> "create_project"
      [] step = "create_project" -> IF dry_run THEN "done" ELSE "build"
      [] step = "build" -> "done"

\* the try block after one step: the next step, return 0 after the last
\* one, return 130 on KeyboardInterrupt, return 1 on any other exception
AfterStep(step, outcome) ==
    LET next == IF outcome = "ok" THEN StepAfter(step, run.dry_run) ELSE "done"
    IN  [ run EXCEPT !.pc = next,
                     !.trace = Append(run.trace, step),
                     !.outcome = outcome,
                     !.code = IF next # "done" THEN <<>>
                              ELSE IF outcome = "ok" THEN << 0 >>
                              ELSE IF outcome = "interrupt" THEN << 130 >>
                              ELSE << 1 >> ]

\* a KeyboardInterrupt that arrives while the step runs
Interrupted(step) ==
    /\ steps' = steps + 1
    /\ op' = step
    /\ run' = AfterStep(step, "interrupt")
    /\ UNCHANGED << config, cachevars, genvars, raised, sha, par >>

\* parser.parse_args(); config = Config(); config.ui_framework = ...;
\* config.language = ...  (the choices of the two options are the enumerated sets)
MainStart ==
    /\ steps < MaxSteps
    /\ run.pc = "idle"
    /\ steps' = steps + 1
    /\ op' = "main"
    /\ \E fw \in Frameworks, lang \in Languages, dry_run \in BOOLEAN :
           /\ config' = [ config EXCEPT !.ui_framework = fw, !.language = lang ]
           /\ run' = [ run EXCEPT !.pc = "parse", !.dry_run = dry_run ]
    /\ UNCHANGED << cachevars, genvars, raised, sha, par >>

\* requirements = PromptParser(config).parse(args.prompt)
MainParse ==
    /\ steps < MaxSteps
    /\ run.pc = "parse"
    /\ \/ /\ \E prompt \in CachePrompts : ParseStep(prompt, "written")
          /\ run' = AfterStep("parse", IF ret'.kind = "return" THEN "ok" ELSE "exception")
          /\ UNCHANGED << raised, sha, par >>
       \/ Interrupted("parse")

\* project_structure = CodeGenerator(config).generate(requirements)
MainGenerate ==
    /\ steps < MaxSteps
    /\ run.pc = "generate"
    /\ \/ /\ steps' = steps + 1
          /\ op' = "generate"
          /\ project' = Generate(heap[ret.obj])
          /\ run' = AfterStep("generate", "ok")
          /\ UNCHANGED << config, cachevars, dispatch, raised, sha, par >>
       \/ Interrupted("generate")

\* project_path = XcodeProjectBuilder(config).create_project(...): the files
\* of the project and the project.pbxproj file are written, or a write fails
MainCreateProject ==
    /\ steps < MaxSteps
    /\ run.pc = "create_project"
    /\ \/ /\ steps' = steps + 1
          /\ op' = "create_project"
          /\ \E outcome \in { "ok", "exception" } :
                run' = [ AfterStep("create_project", outcome) EXCEPT
                           !.written = IF outcome = "ok"
                                       THEN [ i \in 1..Len(project.files) |-> project.files[i].path ]
                                              \o << project.name \o ".xcodeproj/project.pbxproj" >>
                                       ELSE <<>> ]
          /\ UNCHANGED << config, cachevars, genvars, raised, sha, par >>
       \/ Interrupted("create_project")

\* app_path = builder.build(project_path): xcodebuild succeeds, or it fails,
\* is missing or times out
MainBuild ==
    /\ steps < MaxSteps
    /\ run.pc = "build"
    /\ \/ /\ steps' = steps + 1
          /\ op' = "build"
          /\ \E outcome \in { "ok", "exception" } :
                run' = [ AfterStep("build", outcome) EXCEPT
                           !.app = IF outcome = "ok"
                                   THEN "build/Build/Products/Debug/" \o project.name \o ".app"
                                   ELSE "" ]
          /\ UNCHANGED << config, cachevars, genvars, raised, sha, par >>
       \/ Interrupted("build")

NextMain == MainStart \/ MainParse \/ MainGenerate \/ MainCreateProject \/ MainBuild

SpecMain == InitStore /\ [][NextMain]_vars

(***************************************************************************)
(* Two parsers of the same configuration over one cache directory, each    *)
(* parsing the same prompt.  The cache file is a sequence of pieces: a     *)
(* piece is one write of the dump, or a gap that a write beyond the end    *)
(* of the file leaves behind.  A parser reads the file piece by piece up   *)
(* to its end, and writes it with one write per piece after open(.., "w")  *)
(* has truncated it.                                                       *)
(***************************************************************************)
\* the writes that one dump of an entry takes
WriteChunks == 2

Parsers == { 1, 2 }

Gap == [ at |-> 0, of |-> Garbage ]

Piece(i, content) == [ at |-> i, of |-> content ]

\* the text of the file as json.load sees it: the dumped object when every
\* piece of it is there, else text that does not decode
TextOf(pieces) ==
    IF /\ Len(pieces) = WriteChunks
       /\ \A i \in 1..WriteChunks : pieces[i] = Piece(i, pieces[1].of)
    THEN pieces[1].of
    ELSE Garbage

\* faulty variant: the file is opened for appending
OpenForWrite_Append(file) ==
    [ file |-> [ exists |-> TRUE, pieces |-> file.pieces ], pos |-> Len(file.pieces) ]

\* open(cache_file, "w"): the file is created or truncated
OpenForWrite(file) ==
    [ file |-> [ exists |-> TRUE, pieces |-> <<>> ], pos |-> 0 ]

\* f.write at position pos: the piece replaces what is there, after gaps
\* up to pos if the file ends before it
WriteAt(pieces, pos, piece) ==
    [ i \in 1..(IF Len(pieces) > pos + 1 THEN Len(pieces) ELSE pos + 1) |->
        IF i = pos + 1 THEN piece
        ELSE IF i <= Len(pieces) THEN pieces[i]
        ELSE Gap ]

\* the record a parser extracts for the prompt
Fresh == Extract(par.prompt, config.ui_framework, config.language)

\* PromptParser(config), twice, and the prompt both will parse
ParStart ==
    /\ par.prompt = <<>>
    /\ op' = "start"
    /\ \E prompt \in CachePrompts, fw \in Frameworks, lang \in Languages :
           /\ config' = [ config EXCEPT !.ui_framework = fw, !.language = lang ]
           /\ par' = [ par EXCEPT !.prompt = prompt,
                                  !.proc = [ p \in Parsers |->
                                               [ par.proc[p] EXCEPT !.pc = "lookup" ] ] ]
    /\ UNCHANGED << cachevars, steps, genvars, raised, sha, run >>

\* _get_from_cache up to cache_file.exists(): the in-memory tier is empty;
\* the file is opened for reading if it exists
ParLookup(p) ==
    /\ par.proc[p].pc = "lookup"
    /\ op' = "lookup"
    /\ par' = [ par EXCEPT !.proc[p].pc = IF par.file.exists THEN "read" ELSE "extract" ]
    /\ UNCHANGED << config, cachevars, steps, genvars, raised, sha, run >>

\* json.load(f): one read of the file, or its end, where the text read is
\* decoded; a text that does not decode is a miss
ParRead(p) ==
    LET me == par.proc[p]
        text == TextOf(me.buf)
        found == Deserialize(text)
    IN  /\ me.pc = "read"
        /\ op' = "read"
        /\ IF Len(me.buf) < Len(par.file.pieces)
           THEN par' = [ par EXCEPT !.proc[p].buf =
                                        Append(me.buf, par.file.pieces[Len(me.buf) + 1]) ]
           ELSE par' = [ par EXCEPT
                           !.proc[p].seen = IF text # Garbage THEN "whole"
                                            ELSE IF me.buf = <<>> THEN "empty"
                                            ELSE "partial",
                           !.proc[p].pc = IF found.status = "ok" THEN "done"
                                          ELSE IF found.status = "miss" THEN "extract"
                                          ELSE "raised",
                           !.proc[p].tier = IF found.status = "ok" THEN "disk" ELSE "none",
                           !.proc[p].cache = IF found.status = "ok"
                                             THEN << found.record >> ELSE <<>>,
                           !.proc[p].ret = found.record ]
        /\ UNCHANGED << config, cachevars, steps, genvars, raised, sha, run >>

\* the extraction, self._cache[cache_key] = result, and open(cache_file, "w")
ParOpen(p) ==
    LET opened == OpenForWrite(par.file)
    IN  /\ par.proc[p].pc = "extract"
        /\ op' = "open"
        /\ par' = [ par EXCEPT !.proc[p].pc = "write",
                               !.proc[p].cache = << Fresh >>,
                               !.proc[p].pos = opened.pos,
                               !.file = opened.file ]
        /\ UNCHANGED << config, cachevars, steps, genvars, raised, sha, run >>

\* one write of json.dump(data, f); after the last one the file is closed
\* and parse returns the extracted record
ParWrite(p) ==
    LET me == par.proc[p]
        n == me.pos + 1
    IN  /\ me.pc = "write"
        /\ op' = "write"
        /\ par' = [ par EXCEPT
                      !.file.pieces = WriteAt(par.file.pieces, me.pos,
                                              Piece(me.written + 1, Serialize(me.cache[1]))),
                      !.proc[p].pos = n,
                      !.proc[p].written = me.written + 1,
                      !.proc[p].pc = IF me.written + 1 = WriteChunks THEN "done" ELSE "write",
                      !.proc[p].tier = IF me.written + 1 = WriteChunks THEN "extract" ELSE "none",
                      !.proc[p].ret = IF me.written + 1 = WriteChunks THEN me.cache[1] ELSE NoRecord ]
        /\ UNCHANGED << config, cachevars, steps, genvars, raised, sha, run >>

NextConcurrent ==
    \/ ParStart
    \/ \E p \in Parsers : ParLookup(p)
    \/ \E p \in Parsers : ParRead(p)
    \/ \E p \in Parsers : ParOpen(p)
    \/ \E p \in Parsers : ParWrite(p)

SpecConcurrent == InitValidate /\ [][NextConcurrent]_vars

(***************************************************************************)
(* Properties of extraction (SpecExtract).                                 *)
(***************************************************************************)
\* the marker occurs in the text, letter case ignored
Occurs(text, marker) ==
    \E i \in 1..Len(text) :
        /\ i + Len(marker) - 1 <= Len(text)
        /\ \A j \in 1..Len(marker) : LowerChar(text[i + j - 1]) = marker[j]

HitCounter(p) == Occurs(p, Str_counter)
HitWeather(p) == Occurs(p, Str_weather)
HitTodo(p) == Occurs(p, Str_todo) \/ Occurs(p, Str_task)
HitPhoto(p) == Occurs(p, Str_photo) \/ Occurs(p, Str_gallery)

\* the last operation was a parse call that returned a record
ParseReturned == op = "parse" /\ ret.kind = "return"
\* the record the last parse call returned
Result == heap[ret.obj]
FeatureNames(r) == [ i \in 1..Len(r.features) |-> r.features[i].name ]

C3_MarkerPriority ==
    ParseReturned /\ ret.tier = "extract" =>
        LET p == ret.prompt
        IN  Result.app_name =
                CASE HitCounter(p) -> "CounterApp"
                  [] ~HitCounter(p) /\ HitWeather(p) -> "WeatherApp"
                  [] ~HitCounter(p) /\ ~HitWeather(p) /\ HitTodo(p) -> "TodoApp"
                  [] ~HitCounter(p) /\ ~HitWeather(p) /\ ~HitTodo(p) /\ HitPhoto(p)
                        -> "PhotoGallery"
                  [] OTHER -> "GeneratedApp"

\* "weather" before "counter" in the text, and the name is still CounterApp
C3_Witness ==
    /\ ParseReturned
    /\ ret.prompt = Str_weather \o Str_counter
    /\ Result.app_name = "CounterApp"

\* C4 as stated: one feature for each of the four marker categories the prompt
\* hits, and the generic placeholder only when no category is hit.
C4_Original ==
    ParseReturned /\ ret.tier = "extract" =>
        LET p == ret.prompt
            hits == { c \in { "counter", "weather", "todo", "photo" } :
                         \/ c = "counter" /\ HitCounter(p)
                         \/ c = "weather" /\ HitWeather(p)
                         \/ c = "todo" /\ HitTodo(p)
                         \/ c = "photo" /\ HitPhoto(p) }
        IN  /\ hits = {} => Result.features = <<MainFeature>>
            /\ hits # {} =>
                  /\ Len(Result.features) = Cardinality(hits)
                  /\ \A i \in 1..Len(Result.features) : Result.features[i] # MainFeature

\* C4 as amended: the feature list holds the catalog feature of each of the
\* three categories counter, weather, todo/task that the prompt hits, in the
\* order Counter, WeatherDisplay, TaskList, and it is the generic placeholder
\* alone exactly when none of these three is hit; a photo/gallery hit adds no
\* feature.
C4_FeaturePerCategory ==
    ParseReturned /\ ret.tier = "extract" =>
        LET p == ret.prompt
            Hit(name) ==
                \/ name = "Counter" /\ HitCounter(p)
                \/ name = "WeatherDisplay" /\ HitWeather(p)
                \/ name = "TaskList" /\ HitTodo(p)
            wanted == SelectSeq(<< "Counter", "WeatherDisplay", "TaskList" >>, Hit)
        IN  /\ FeatureNames(Result) =
                  IF wanted = <<>> THEN << "MainFeature" >> ELSE wanted
            /\ \A i \in 1..Len(Result.features) :
                  Result.features[i] \in
                      { CounterFeature, WeatherFeature, TaskFeature, MainFeature }

\* a photo prompt: named PhotoGallery, and yet the generic placeholder
C4_Witness ==
    /\ ParseReturned
    /\ ret.prompt = Str_photo \o Str_gallery
    /\ Result.app_name = "PhotoGallery"
    /\ Result.features = <<MainFeature>>

\* C5: a prompt in which no marker occurs (as the extractor tests it, on the
\* lower-cased text) gets the name GeneratedApp and exactly one feature, named
\* MainFeature.
C5_GenericFallback ==
    ParseReturned /\ ret.tier = "extract" =>
        LET p == ret.prompt
        IN  ~HitCounter(p) /\ ~HitWeather(p) /\ ~HitTodo(p) /\ ~HitPhoto(p) =>
                /\ Result.app_name = "GeneratedApp"
                /\ FeatureNames(Result) = << "MainFeature" >>

\* markers split so that none occurs: "COUN" then " app"
C5_Witness ==
    /\ ParseReturned
    /\ ret.prompt = <<"C", "O", "U", "N">> \o <<" ", "a", "p", "p">>
    /\ Result.app_name = "GeneratedApp"
    /\ Len(Result.features) = 1

\* C8: the key of a parse call is a function of (prompt, ui_framework,
\* language), and a triple of a prompt (with or without ':') and enumerated
\* framework and language has the key of the call only if it is the call's
\* triple; the same prompt under the other framework has another key.
KeyFragments == { <<":">>, Str_uikit, Str_swiftui, Str_swift, <<" ", "a", "p", "p">> }
KeyPrompts == { a \o b : a, b \in KeyFragments \cup { <<>> } }

C8_KeyInjective ==
    op = "parse" =>
        /\ ret.key = GetCacheKey(ret.prompt, ret.ui_framework, ret.language)
        /\ \A p \in KeyPrompts \cup { ret.prompt }, fw \in Frameworks, lang \in Languages :
              GetCacheKey(p, fw, lang) = ret.key =>
                  << p, fw, lang >> = << ret.prompt, ret.ui_framework, ret.language >>

\* a prompt that ends in ":uikit", parsed under swiftui
C8_Witness ==
    /\ op = "parse"
    /\ ret.prompt = <<":">> \o Str_uikit
    /\ ret.ui_framework = Str_swiftui
    /\ ret.key # GetCacheKey(ret.prompt, Str_uikit, ret.language)

(***************************************************************************)
(* Properties of the cache.                                                *)
(***************************************************************************)
\* C2: every record parse returns, freshly extracted, taken from the in-memory
\* tier or restored from a decodable persisted entry, whatever the persisted
\* store holds, has a non-empty features list.
C2_FeaturesNeverEmpty ==
    ParseReturned => Len(Result.features) >= 1

\* C6: once parse(p) has returned under a configuration, every later parse(p)
\* of the same parser under that configuration returns a record equal to the
\* one first returned without marker scanning, whatever was parsed in between;
\* no entry of the in-memory tier is evicted.
C6_CacheTransparency ==
    /\ \A k \in DOMAIN first : k \in DOMAIN cache
    /\ op = "parse" /\ ret.again =>
          /\ ret.kind = "return"
          /\ ret.tier # "extract"
          /\ Result = heap[first[ret.key]]

\* a repeated parse, with caching enabled, after a miss for another key
C6_Witness ==
    /\ ParseReturned
    /\ ret.again
    /\ cache_dir
    /\ ret.obj < Len(heap)
    /\ Cardinality(DOMAIN cache) >= 2

\* C7: after any sequence of parse calls, reassignments of ui_framework and
\* language and parser constructions over a store that only this program
\* writes, the record parse(p) returns has description p and the framework and
\* language the configuration holds at the time of the call.
C7_NoStaleResult ==
    ParseReturned =>
        /\ Result.description = ret.prompt
        /\ Result.metadata.original_prompt = ret.prompt
        /\ Result.ui_framework = config.ui_framework
        /\ Result.metadata.language = config.language

\* a hit under uikit while the entry of the same prompt under swiftui is cached
C7_Witness ==
    /\ ParseReturned
    /\ ret.tier = "memory"
    /\ config.ui_framework = Str_uikit
    /\ GetCacheKey(ret.prompt, Str_swiftui, config.language) \in DOMAIN cache

\* C9: a record parse returns from the cache is field for field the record
\* extraction created for its key, also after the pipeline has overwritten
\* ui_framework on a record an earlier parse call returned.
C9_CachedEqualsExtracted ==
    ParseReturned /\ ret.tier \in { "memory", "disk" } =>
        Result = Extract(ret.prompt, config.ui_framework, config.language)

\* C10: a persisted hit is promoted into the in-memory tier before it is
\* returned, and a parser reads the persisted entry of a key at most once.
C10_ReadAtMostOnce ==
    /\ ParseReturned /\ ret.tier = "disk" =>
          ret.key \in DOMAIN cache /\ cache[ret.key] = ret.obj
    /\ \A k \in DOMAIN reads : reads[k] <= 1

(***************************************************************************)
(* Properties of the write path (_save_to_cache).                          *)
(***************************************************************************)
\* C11: a parse call that misses both tiers returns the extracted record with
\* both tiers written: the in-memory tier holds the returned object under the
\* key and, when the parser has a persisted tier and the file write went
\* through, the file of the key holds the serialization of the record.
C11_WriteThrough ==
    ParseReturned /\ ret.tier = "extract" =>
        /\ Result = Extract(ret.prompt, config.ui_framework, config.language)
        /\ ret.key \in DOMAIN cache
        /\ cache[ret.key] = ret.obj
        /\ (cache_dir /\ ret.write = "written" =>
               /\ ret.key \in DOMAIN disk
               /\ disk[ret.key] = Serialize(Result))

\* a miss of a caching parser whose file write went through
C11_Witness ==
    /\ ParseReturned
    /\ ret.tier = "extract"
    /\ cache_dir
    /\ ret.write = "written"
    /\ cache[ret.key] = ret.obj
    /\ disk[ret.key] = Serialize(Result)

\* C14: a parse call whose persisted write failed (the file could not be
\* opened, or the dump broke off) returns the extracted record all the same
\* and leaves it in the in-memory tier; the next parse of that key by the same
\* parser is a memory hit on that object although the store has no usable
\* entry for the key.
C14_WriteFailureSwallowed ==
    /\ op = "parse" /\ ret.write \in { "not_opened", "truncated" } =>
          /\ ret.kind = "return"
          /\ ret.tier = "extract"
          /\ Result = Extract(ret.prompt, config.ui_framework, config.language)
          /\ ret.key \in DOMAIN cache
          /\ cache[ret.key] = ret.obj
    /\ op = "parse" /\ ret.again /\ cache_dir
          /\ (ret.key \notin DOMAIN disk \/ disk[ret.key] = Garbage) =>
          /\ ret.kind = "return"
          /\ ret.tier = "memory"
          /\ ret.obj = first[ret.key]

\* a repeat that is served from memory while the file of the key was never
\* created
C14_Witness ==
    /\ ParseReturned
    /\ ret.again
    /\ ret.tier = "memory"
    /\ cache_dir
    /\ ret.key \notin DOMAIN disk

(***************************************************************************)
(* Properties of the read path over a store with a malformed entry         *)
(* (SpecStore).  They relate the entry a call finds to how the call ends,  *)
(* so they are stated on the step of the call.                             *)
(***************************************************************************)
FailsToDecode(content) == content.kind \in { "garbage", "bytes" }

LacksTopLevelField(content) ==
    content.kind = "object" /\ ~(TopLevelFields \subseteq DOMAIN content.data)

FieldMismatch(content) ==
    \/ content.kind = "array"
    \/ /\ content.kind = "object"
       /\ \/ DOMAIN content.data # TopLevelFields
          \/ /\ "features" \in DOMAIN content.data
             /\ \E i \in 1..Len(content.data["features"]) :
                    DOMAIN content.data["features"][i] # FeatureFields

\* the call of this step went to the persisted entry of its key
ReadsEntry ==
    /\ op' = "parse"
    /\ cache_dir
    /\ ret'.key \notin DOMAIN cache
    /\ ret'.key \in DOMAIN disk

\* the call of this step ended as a miss does: it returned the record
\* extraction builds for its prompt
EndsAsMiss ==
    /\ ret'.kind = "return"
    /\ ret'.tier = "extract"
    /\ heap'[ret'.obj] = Extract(ret'.prompt, config.ui_framework, config.language)

\* C12: a parse call that finds an entry which does not decode or which
\* lacks a top-level field raises nothing, returns the record extraction
\* builds, and (when its write goes through) leaves a well-formed entry in
\* place of the malformed one.
C12_MalformedIsMiss ==
    [][ ReadsEntry /\ ( \/ FailsToDecode(disk[ret'.key])
                        \/ LacksTopLevelField(disk[ret'.key]) ) =>
            /\ EndsAsMiss
            /\ (ret'.write = "written" =>
                   disk'[ret'.key] = Serialize(heap'[ret'.obj])) ]_vars

\* C13: a parse call whose entry is absent, truncated or has a field
\* mismatch anywhere (a feature object without one of its four fields or with
\* another field, a top-level value that is no object) ends exactly as a call
\* without an entry: no exception, the freshly extracted record returned.
C13_MismatchIsAbsent ==
    [][ /\ op' = "parse"
        /\ cache_dir
        /\ ret'.key \notin DOMAIN cache
        /\ (ret'.key \in DOMAIN disk =>
               disk[ret'.key] = Garbage \/ FieldMismatch(disk[ret'.key]))
        => EndsAsMiss ]_vars

(***************************************************************************)
(* Properties of the persisted format (SpecClosed).                        *)
(***************************************************************************)
\* C15: a record that a parser restores from the persisted tier is a new
\* object, built without extraction, that equals in every field (name,
\* description, the ordered features with their four fields, framework,
\* metadata) the record that an earlier parser extracted and wrote for the
\* same prompt, framework and language.
C15_RoundTrip ==
    ParseReturned /\ ret.tier = "disk" =>
        LET original == Extract(ret.prompt, config.ui_framework, config.language)
        IN  /\ Result.app_name = original.app_name
            /\ Result.description = original.description
            /\ Len(Result.features) = Len(original.features)
            /\ \A i \in 1..Len(original.features) :
                   /\ Result.features[i].name = original.features[i].name
                   /\ Result.features[i].description = original.features[i].description
                   /\ Result.features[i].ui_elements = original.features[i].ui_elements
                   /\ Result.features[i].functionality =
                          original.features[i].functionality
            /\ Result.ui_framework = original.ui_framework
            /\ Result.metadata = original.metadata
            /\ \E written \in 1..(ret.obj - 1) : heap[written] = Result
            /\ ret.obj = Len(heap)

\* a second parser restored the record the first one had extracted
C15_Witness ==
    /\ ParseReturned
    /\ ret.tier = "disk"
    /\ ret.obj > 1
    /\ heap[1] = Result
    /\ Len(Result.features) > 0
    /\ disk[ret.key] = Serialize(heap[1])

\* the prompt, framework and language a record was built for
Triple(r) == << r.description, r.ui_framework, r.metadata.language >>

\* C16: what extraction produces depends on the prompt, the framework and the
\* language only, not on the parser, its tiers or the calls before: any two
\* records created for one triple are equal field for field, and whatever a
\* writer left decodable under the key of a triple is the serialization of
\* that one record.
C16_Deterministic ==
    /\ \A i, j \in 1..Len(heap) :
           Triple(heap[i]) = Triple(heap[j]) => heap[i] = heap[j]
    /\ \A prompt \in CachePrompts, fw \in Frameworks, lang \in Languages :
           LET key == GetCacheKey(prompt, fw, lang)
           IN  key \in DOMAIN disk /\ disk[key] # Garbage =>
                   disk[key] = Serialize(Extract(prompt, fw, lang))

\* the same triple extracted a second time, by a parser that found nothing in
\* either tier
C16_Witness ==
    /\ ParseReturned
    /\ ret.tier = "extract"
    /\ disk = Empty
    /\ \E earlier \in 1..(ret.obj - 1) :
           /\ Triple(heap[earlier]) = Triple(Result)
           /\ heap[earlier] = Result

(***************************************************************************)
(* Properties of the code generator (SpecGenerate).                        *)
(***************************************************************************)
\* the record handed to the generator call that led to this state
Requirements == heap[ret.obj]

Paths(files) == [ i \in 1..Len(files) |-> files[i].path ]

\* C17: for every record parse returns (extracted, restored from a file,
\* overwritten by the caller) generate yields exactly three files with
\* pairwise distinct paths: <app_name>App.swift, ContentView.swift and
\* Info.plist when ui_framework is "swiftui", AppDelegate.swift,
\* ViewController.swift and Info.plist otherwise.
C17_ThreeArtifacts ==
    op = "generate" =>
        LET paths == Paths(project.files)
        IN  /\ Len(project.files) = 3
            /\ \A i, j \in 1..Len(paths) : i # j => paths[i] # paths[j]
            /\ { paths[i] : i \in 1..Len(paths) } =
                   IF Requirements.ui_framework = Str_swiftui
                   THEN { Requirements.app_name \o "App.swift", "ContentView.swift",
                          "Info.plist" }
                   ELSE { "AppDelegate.swift", "ViewController.swift", "Info.plist" }

\* the SwiftUI project of the counter application
C17_Witness ==
    /\ op = "generate"
    /\ Requirements.ui_framework = Str_swiftui
    /\ Paths(project.files) =
           << "CounterAppApp.swift", "ContentView.swift", "Info.plist" >>

\* C18: in every project generate returns the manifest (Info.plist, type
\* "plist") is the last file and the only one of its type, and before it come
\* the entry file and then the view file of the dialect.
C18_ManifestLast ==
    op = "generate" =>
        LET files == project.files
            n == Len(files)
        IN  /\ n >= 1
            /\ files[n].path = "Info.plist"
            /\ files[n].file_type = "plist"
            /\ \A i \in 1..(n - 1) : files[i].file_type = "swift"
            /\ SubSeq(Paths(files), 1, n - 1) =
                   IF Requirements.ui_framework = Str_swiftui
                   THEN << Requirements.app_name \o "App.swift", "ContentView.swift" >>
                   ELSE << "AppDelegate.swift", "ViewController.swift" >>

\* a project of the second dialect, in its order
C18_Witness ==
    /\ op = "generate"
    /\ Requirements.ui_framework = Str_uikit
    /\ Paths(project.files) =
           << "AppDelegate.swift", "ViewController.swift", "Info.plist" >>
    /\ project.files[3].file_type = "plist"

\* the path of the file each tag of the table stands for
PathOfTag(file_type, requirements) ==
    CASE file_type = "swiftui_app" -> requirements.app_name \o "App.swift"
      [] file_type = "swiftui_content_view" -> "ContentView.swift"
      [] file_type = "uikit_app_delegate" -> "AppDelegate.swift"
      [] file_type = "uikit_view_controller" -> "ViewController.swift"
      [] file_type = "info_plist" -> "Info.plist"

\* C19: _generate_file returns the file of the tag for each of the five tags
\* of the table and None for any other tag; the files of a project are files
\* that _generate_file returned for tags of the table, never None.
C19_DispatchByTag ==
    /\ op = "generate_file" =>
          IF dispatch.file_type \in KnownTags
          THEN /\ dispatch.file # None
               /\ dispatch.file.path = PathOfTag(dispatch.file_type, Requirements)
               /\ dispatch.file.file_type \in { "swift", "plist" }
          ELSE dispatch.file = None
    /\ op = "generate" =>
          \A i \in 1..Len(project.files) :
              /\ project.files[i] # None
              /\ \E file_type \in KnownTags :
                     /\ project.files[i].path = PathOfTag(file_type, Requirements)
                     /\ project.files[i] = GenerateFile(file_type, Requirements)

\* a tag outside the table, answered with None
C19_Witness ==
    /\ op = "generate_file"
    /\ dispatch.file_type = "storyboard"
    /\ dispatch.file = None

\* the content of ContentView.swift around a view body
ContentViewOf(body) == ContentViewText_Head \o body \o ContentViewText_Tail

GreetingOf(requirements) ==
    GreetingView_Head \o requirements.app_name \o GreetingView_Tail

\* the body the name of the first feature selects
BodyOfFirstFeature(requirements) ==
    IF requirements.features[1].name = "Counter" THEN CounterView
    ELSE IF requirements.features[1].name = "WeatherDisplay" THEN WeatherView
    ELSE GreetingOf(requirements)

C21_GenerateDeterministic ==
    [][ op' = "generate" /\ project # NoProject /\ heap'[ret'.obj] = heap[ret.obj]
            => project' = project ]_vars

\* C22: the project echoes the record: its name is the record's app_name, its
\* metadata framework is the record's ui_framework and its metadata language
\* is the language in the record's metadata.
C22_EchoesRequirements ==
    op = "generate" =>
        /\ project.name = Requirements.app_name
        /\ project.metadata.framework = Requirements.ui_framework
        /\ project.metadata.language = Requirements.metadata.language

(***************************************************************************)
(* Properties of the configuration (SpecValidate).                         *)
(***************************************************************************)
FrameworkValid(c) == c.ui_framework = Str_swiftui \/ c.ui_framework = Str_uikit

LanguageValid(c) == c.language = Str_swift \/ c.language = Str_objective_c

TemperatureValid(c) == c.temperature >= 0 /\ c.temperature <= 10

MaxTokensValid(c) == c.max_tokens > 0

\* C23: a _validate_config call raises ValueError exactly when the framework
\* is not swiftui or uikit, or the language is not swift or objective-c, or
\* the temperature is outside [0.0, 1.0], or max_tokens is not positive; the
\* error is that of the first of these checks that fails, in this order; and
\* the call leaves every field of the configuration as it was.
C23_ValidationOrder ==
    [][ op' = "validate" =>
          /\ config' = config
          /\ (raised' = "none") <=>
                 ( /\ FrameworkValid(config) /\ LanguageValid(config)
                   /\ TemperatureValid(config) /\ MaxTokensValid(config) )
          /\ (raised' = "ui_framework") <=> ~FrameworkValid(config)
          /\ (raised' = "language") <=>
                 FrameworkValid(config) /\ ~LanguageValid(config)
          /\ (raised' = "temperature") <=>
                 ( /\ FrameworkValid(config) /\ LanguageValid(config)
                   /\ ~TemperatureValid(config) )
          /\ (raised' = "max_tokens") <=>
                 ( /\ FrameworkValid(config) /\ LanguageValid(config)
                   /\ TemperatureValid(config) /\ ~MaxTokensValid(config) )
      ]_vars

\* a configuration with three violations, of which the language is reported
C23_Witness ==
    /\ op = "validate"
    /\ raised = "language"
    /\ FrameworkValid(config)
    /\ ~TemperatureValid(config)
    /\ ~MaxTokensValid(config)

(***************************************************************************)
(* Properties of the pipeline over an assigned configuration               *)
(* (SpecUnvalidated).                                                      *)
(***************************************************************************)
\* C24: no parse call and no generate call is made with a configuration
\* whose framework or language is outside the enumerated sets, also when the
\* fields were assigned after the configuration object was constructed.
C24_NoStepWithInvalidConfig ==
    op \in { "parse", "generate" } =>
        /\ config.ui_framework \in Frameworks
        /\ config.language \in Languages

\* C30: generate returns for every record, with the SwiftUI files exactly
\* when the record's ui_framework is "swiftui" and the UIKit files for every
\* other value (values outside the enumerated set included); a project never
\* has fewer than three files; the view of a record without features is the
\* "Hello, World!" template; and the call leaves the record as it was.
C30_GenerateTotal ==
    [][ op' = "generate" =>
          LET requirements == heap[ret.obj]
              paths == Paths(project'.files)
          IN  /\ heap' = heap
              /\ ret' = ret
              /\ project' # NoProject
              /\ Len(project'.files) >= 3
              /\ IF requirements.ui_framework = <<"s", "w", "i", "f", "t", "u", "i">>
                 THEN /\ SubSeq(paths, 1, 2) =
                            << requirements.app_name \o "App.swift",
                               "ContentView.swift" >>
                      /\ requirements.features = <<>> =>
                            project'.files[2].content = ContentViewOf(HelloWorldView)
                 ELSE SubSeq(paths, 1, 2) =
                          << "AppDelegate.swift", "ViewController.swift" >>
      ]_vars

\* a SwiftUI project for a record without features
C30_Witness ==
    /\ op = "generate"
    /\ Requirements.features = <<>>
    /\ Requirements.ui_framework = Str_swiftui
    /\ Len(project.files) = 3
    /\ project.files[2].content = ContentViewOf(HelloWorldView)

(***************************************************************************)
(* Properties of the checksum utilities (SpecSha256).                      *)
(***************************************************************************)
\* C25: once write_sha256_file has written the checksum file of a file,
\* verify_sha256 against that checksum file returns True exactly while the
\* file has the content that was hashed, and False once the content differs,
\* whether the checksum file holds the hash in lower or in upper case.
C25_ChecksumRoundTrip ==
    op = "verify_sha256" /\ sha.hashed # {} =>
        sha.result = (sha.file \in sha.hashed)

\* a verification that succeeds against an upper-case checksum file
C25_Witness ==
    /\ op = "verify_sha256"
    /\ sha.file \in sha.hashed
    /\ sha.checksum_file.text = Upper(ChecksumLine(sha.file))
    /\ sha.result = TRUE

(***************************************************************************)
(* Properties of the pipeline driver (SpecMain).                           *)
(***************************************************************************)
PipelineOrder == << "parse", "generate", "create_project", "build" >>

\* C26: the driver starts the steps in the order parse, generate,
\* create_project, build, each one only after all earlier ones succeeded; a
\* successful run contains the build step exactly when dry-run is off; main
\* returns 0 when every step it ran succeeded, 1 when a step raised an
\* exception and 130 when a step was interrupted from the keyboard.
C26_PipelineOrder ==
    /\ Len(run.trace) <= Len(PipelineOrder)
    /\ run.trace = SubSeq(PipelineOrder, 1, Len(run.trace))
    /\ run.dry_run => Len(run.trace) < Len(PipelineOrder)
    /\ run.outcome \in { "exception", "interrupt" } => run.pc = "done"
    /\ run.pc = "done" =>
         /\ run.outcome = "ok" =>
               /\ run.code = << 0 >>
               /\ run.trace = SubSeq(PipelineOrder, 1, IF run.dry_run THEN 3 ELSE 4)
         /\ run.outcome = "exception" => run.code = << 1 >>
         /\ run.outcome = "interrupt" => run.code = << 130 >>
    /\ run.pc # "done" => run.code = <<>>
    /\ Len(run.trace) >= 2 => ret.kind = "return"
    /\ Len(run.trace) >= 3 => project # NoProject
    /\ Len(run.trace) >= 4 => run.written # <<>>

\* a dry run that returned 0 after three steps
C26_Witness ==
    /\ run.pc = "done"
    /\ run.dry_run
    /\ run.code = << 0 >>
    /\ run.trace = << "parse", "generate", "create_project" >>
    /\ run.written # <<>>

(***************************************************************************)
(* Properties of two concurrent parsers (SpecConcurrent).                  *)
(***************************************************************************)
\* C27: under every interleaving of the reads and writes of two parsers of
\* one configuration that parse one prompt over one cache directory, no
\* parse call raises, each call that has returned has returned a record
\* equal to the extracted one, a parser that read an empty or a partly
\* written file went on as on a miss, and once both have returned the file
\* holds the serialization of that record.
C27_ConcurrentParse ==
    /\ \A p \in Parsers :
         /\ par.proc[p].pc # "raised"
         /\ par.proc[p].pc = "done" => par.proc[p].ret = Fresh
         /\ par.proc[p].seen \in { "empty", "partial" } => par.proc[p].tier # "disk"
         /\ par.proc[p].tier = "disk" => par.proc[p].seen = "whole"
    /\ (\A p \in Parsers : par.proc[p].pc = "done") =>
         TextOf(par.file.pieces) = Serialize(Fresh)

\* both parsers have returned, one of them after reading a partly written
\* file and writing the file again
C27_Witness ==
    /\ \A p \in Parsers : par.proc[p].pc = "done"
    /\ \E p \in Parsers : par.proc[p].seen = "partial" /\ par.proc[p].tier = "extract"
    /\ TextOf(par.file.pieces) = Serialize(Fresh)

(***************************************************************************)
(* Agreement of the two extractors (SpecExtract).                          *)
(***************************************************************************)
\* C28: in every extracted record the application name and the first
\* feature agree: CounterApp comes with Counter first, WeatherApp with
\* WeatherDisplay first, TodoApp with TaskList first, GeneratedApp with the
\* list of MainFeature alone; the list has one to three features, whose
\* names differ pairwise.
C28_NameAgreesWithFirstFeature ==
    (op = "parse" /\ ret.tier = "extract") =>
        LET features == Requirements.features
            app_name == Requirements.app_name
        IN  /\ Len(features) \in 1..3
            /\ \A i, j \in 1..Len(features) : features[i].name = features[j].name => i = j
            /\ app_name = "CounterApp" => features[1].name = "Counter"
            /\ app_name = "WeatherApp" => features[1].name = "WeatherDisplay"
            /\ app_name = "TodoApp" => features[1].name = "TaskList"
            /\ app_name = "GeneratedApp" => features = << MainFeature >>

\* a weather application with a second feature
C28_Witness ==
    /\ op = "parse"
    /\ ret.tier = "extract"
    /\ Requirements.app_name = "WeatherApp"
    /\ Len(Requirements.features) = 2
    /\ Requirements.features[1].name = "WeatherDisplay"

(***************************************************************************)
(* A parser constructed without the persisted tier (SpecClosed).           *)
(***************************************************************************)
\* C29: a parse call of a parser constructed with enable_caching false
\* neither reads nor writes the persisted store; it returns the object of
\* the in-memory tier, without extraction, when the tier holds one for the
\* key, and otherwise extracts and stores the new object in the tier.
C29_MemoryTierOnly ==
    [][ (op' = "parse" /\ ~cache_dir) =>
            /\ disk' = disk
            /\ reads' = reads
            /\ ret'.kind = "return"
            /\ ret'.write = "none"
            /\ IF ret'.key \in DOMAIN cache
               THEN /\ ret'.tier = "memory"
                    /\ ret'.obj = cache[ret'.key]
                    /\ heap' = heap
                    /\ cache' = cache
               ELSE /\ ret'.tier = "extract"
                    /\ ret'.key \in DOMAIN cache'
                    /\ cache'[ret'.key] = ret'.obj
                    /\ heap'[ret'.obj] = Extract(ret'.prompt, config.ui_framework,
                                                 config.language)
      ]_vars

\* a repeated parse answered from the in-memory tier while the store holds
\* an entry for the same key that was never read
C29_Witness ==
    /\ op = "parse"
    /\ ~cache_dir
    /\ ret.tier = "memory"
    /\ ret.again
    /\ ret.key \in DOMAIN disk
    /\ reads = Empty

=============================================================================
